---- MODULE Spec2Model ----
(***************************************************************************)
(* A model of the generic-record adapter over GLib's doubly linked list    *)
(* (UserDefined.c), of the ASCII tokenizer (FileIO.c) and of the read loop *)
(* of the test driver (listTest.c).                                        *)
(*                                                                         *)
(* The heap is a map from addresses to blocks.  A GList is modelled as the *)
(* sequence of the addresses of its cells, in next-order; the NULL list is *)
(* the empty sequence.  Characters are their ASCII codes; a C string is    *)
(* the sequence of its characters before the terminator.                   *)
(***************************************************************************)
EXTENDS Integers, Sequences, FiniteSets, TLC

\* ---------------------------------------------------------------- bounds
MaxAddr == 12
MaxLen == 2

\* ------------------------------------------------------ program constants
NULL == 0
EXIT_SUCCESS == 0
EXIT_FAILURE == 1
LESS == -1
EQUAL == 0
GREATER == 1
NOTEQUAL == 2
INT == 1
STR == 2
SINGLEINT == 3
SINGLESTR == 4

Addr == 1..MaxAddr

\* The numbers and strings the client stores, and those it searches for.
Numbers == {-1, 2}
Strings == {<<97>>, <<97, 98>>}
SearchNumbers == Numbers \cup {6}
SearchStrings == Strings \cup {<<98>>}
Keys == 0..5

\* The adapter's client: the heap, the list and its copy, and the last call.
VARIABLES heap, theList_p, item_p, listSt, copySt, call

\* The tokenizer: the input file (by lines, and as the stream of its
\* characters), the stream position and end-of-file indicator, the locals of
\* GetInt and GetString (oob: a store was made outside buffer), the control
\* point, and what the calls returned.
VARIABLES lines, stream, pos, eof, tpc, c, i, sign, buffer, oob, ints, strs

\* The run of the program: whether a null pointer has been dereferenced
\* ("none", or what became of the process: "killed", "went_on"), the lines
\* written to the standard output, the control point and the cursor of
\* PrintList, and the caller of the tokenizer.
VARIABLES fault, out, ppc, aux, caller

listVars == <<heap, theList_p, item_p, listSt, copySt, call>>
tokVars == <<lines, stream, pos, eof, tpc, c, i, sign, buffer, oob, ints, strs>>
runVars == <<fault, out, ppc, aux, caller>>
memVars == <<heap, theList_p, item_p, listSt, copySt>>

\* ------------------------------------------------------------------ heap
UnusedBlock ==
    [st |-> "unused", frees |-> 0, kind |-> "none", number |-> 0, ptr |-> NULL,
     chars |-> <<>>]

Unused(h) == {a \in Addr : h[a].st = "unused"}

\* malloc: the lowest address never handed out (a freed block is not reused,
\* so that a second free of it stays visible).
malloc(h) ==
    IF Unused(h) = {} THEN NULL
    ELSE CHOOSE a \in Unused(h) : \A b \in Unused(h) : a <= b

\* free(p): free(NULL) does nothing; the count of frees tells a double free.
free(h, p) ==
    IF p = NULL THEN h
    ELSE [h EXCEPT ![p].st = "freed", ![p].frees = @ + 1]

\* strdup: a fresh block holding a character-by-character copy of s.
strdup(h, s) ==
    LET p == malloc(h)
    IN  [heap |-> [h EXCEPT ![p] = [st |-> "live", frees |-> 0, kind |-> "str",
                                    number |-> 0, ptr |-> NULL,
                                    chars |-> [k \in 1..Len(s) |-> s[k]]]],
         ret |-> p]

\* strcmp: the sign of the difference at the first position where the strings
\* differ, the terminator counting as the smallest character.
RECURSIVE strcmpFrom(_, _, _)
strcmpFrom(s1, s2, k) ==
    IF k > Len(s1) /\ k > Len(s2) THEN 0
    ELSE IF k > Len(s1) THEN -1
    ELSE IF k > Len(s2) THEN 1
    ELSE IF s1[k] < s2[k] THEN -1
    ELSE IF s1[k] > s2[k] THEN 1
    ELSE strcmpFrom(s1, s2, k + 1)

strcmp(s1, s2) == strcmpFrom(s1, s2, 1)

\* The string a record's theString points to.
StringOf(h, p) == h[h[p].ptr].chars

\* ------------------------------------------------------------ GLib calls
g_list_append(h, list, data) ==
    LET cell == malloc(h)
    IN  [heap |-> [h EXCEPT ![cell] = [st |-> "live", frees |-> 0, kind |-> "cell",
                                       number |-> 0, ptr |-> data, chars |-> <<>>]],
         ret |-> Append(list, cell)]

g_list_prepend(h, list, data) ==
    LET cell == malloc(h)
    IN  [heap |-> [h EXCEPT ![cell] = [st |-> "live", frees |-> 0, kind |-> "cell",
                                       number |-> 0, ptr |-> data, chars |-> <<>>]],
         ret |-> <<cell>> \o list]

\* g_list_remove: unlinks and frees the first cell whose data is `data`.
g_list_remove(h, list, data) ==
    LET hits == {k \in 1..Len(list) : h[list[k]].ptr = data}
    IN  IF hits = {} THEN [heap |-> h, ret |-> list]
        ELSE LET k == CHOOSE x \in hits : \A y \in hits : x <= y
             IN  [heap |-> free(h, list[k]),
                  ret |-> SubSeq(list, 1, k - 1) \o SubSeq(list, k + 1, Len(list))]

\* ------------------------------------------------------------- UserDefined
NewItem(h, theNumber, theString) ==
    LET newNode == malloc(h)
        h1 == [h EXCEPT ![newNode] = [st |-> "live", frees |-> 0, kind |-> "rec",
                                      number |-> theNumber, ptr |-> NULL,
                                      chars |-> <<>>]]
        dup == strdup(h1, theString)
    IN  [heap |-> [dup.heap EXCEPT ![newNode].ptr = dup.ret], ret |-> newNode]

\* NewItem when malloc succeeds and strdup returns NULL: the record is
\* returned with theString = NULL.
NewItemStrdupFails(h, theNumber, theString) ==
    LET newNode == malloc(h)
    IN  [heap |-> [h EXCEPT ![newNode] = [st |-> "live", frees |-> 0, kind |-> "rec",
                                          number |-> theNumber, ptr |-> NULL,
                                          chars |-> <<>>]],
         ret |-> newNode]

\* A FreeItem that does not test its argument.
FreeItemNoNullTest(h, data_p) == [heap |-> free(h, data_p), ret |-> EXIT_SUCCESS]

FreeItem(h, data_p) ==
    IF data_p = NULL THEN [heap |-> h, ret |-> EXIT_FAILURE]
    ELSE [heap |-> free(h, data_p), ret |-> EXIT_SUCCESS]

\* A traversal that goes on after a FreeItem that failed.
RECURSIVE DestroyFromGoesOn(_, _, _)
DestroyFromGoesOn(h, list, k) ==
    IF k > Len(list) THEN [heap |-> h, ret |-> EXIT_SUCCESS]
    ELSE LET r == FreeItem(h, h[list[k]].ptr)
             rest == DestroyFromGoesOn(r.heap, list, k + 1)
         IN  IF r.ret = EXIT_FAILURE THEN [heap |-> rest.heap, ret |-> EXIT_FAILURE]
             ELSE rest

RECURSIVE DestroyFrom(_, _, _)
DestroyFrom(h, list, k) ==
    IF k > Len(list) THEN [heap |-> h, ret |-> EXIT_SUCCESS]
    ELSE LET r == FreeItem(h, h[list[k]].ptr)
         IN  IF r.ret = EXIT_FAILURE THEN r
             ELSE DestroyFrom(r.heap, list, k + 1)

DestroyList(h, theList) ==
    IF theList # <<>> THEN DestroyFrom(h, theList, 1)
    ELSE [heap |-> h, ret |-> EXIT_FAILURE]

\* A comparison that breaks a tie on the numbers by the strings.
CompareItemsTieByString(h, item1_p, item2_p) ==
    IF h[item1_p].number < h[item2_p].number THEN LESS
    ELSE IF h[item1_p].number > h[item2_p].number THEN GREATER
    ELSE strcmp(StringOf(h, item1_p), StringOf(h, item2_p))

CompareItems(h, item1_p, item2_p) ==
    IF h[item1_p].number < h[item2_p].number THEN LESS
    ELSE IF h[item1_p].number > h[item2_p].number THEN GREATER
    ELSE EQUAL

\* A keyed comparison that returns strcmp's ordering for STR.
CompareItemsWithKeyStrOrder(h, item1_p, item2_p, key) ==
    CASE key = INT -> CompareItems(h, item1_p, item2_p)
      [] key = STR -> strcmp(StringOf(h, item1_p), StringOf(h, item2_p))
      [] key = SINGLESTR ->
            IF strcmp(StringOf(h, item1_p), item2_p) = 0 THEN EQUAL ELSE NOTEQUAL
      [] key = SINGLEINT ->
            IF h[item1_p].number = item2_p THEN EQUAL ELSE NOTEQUAL
      [] OTHER -> NOTEQUAL

\* A keyed comparison that passes its operands to CompareItems in the other
\* order.
CompareItemsWithKeySwapped(h, item1_p, item2_p, key) ==
    CASE key = INT -> CompareItems(h, item2_p, item1_p)
      [] key = STR ->
            IF strcmp(StringOf(h, item1_p), StringOf(h, item2_p)) = 0
            THEN EQUAL ELSE NOTEQUAL
      [] key = SINGLESTR ->
            IF strcmp(StringOf(h, item1_p), item2_p) = 0 THEN EQUAL ELSE NOTEQUAL
      [] key = SINGLEINT ->
            IF h[item1_p].number = item2_p THEN EQUAL ELSE NOTEQUAL
      [] OTHER -> NOTEQUAL

\* A keyed comparison whose SINGLEINT case has no else branch and falls out
\* of the switch to a final return of EQUAL.
CompareItemsWithKeyFallsOut(h, item1_p, item2_p, key) ==
    CASE key = INT -> CompareItems(h, item1_p, item2_p)
      [] key = STR ->
            IF strcmp(StringOf(h, item1_p), StringOf(h, item2_p)) = 0
            THEN EQUAL ELSE NOTEQUAL
      [] key = SINGLESTR ->
            IF strcmp(StringOf(h, item1_p), item2_p) = 0 THEN EQUAL ELSE NOTEQUAL
      [] key = SINGLEINT -> EQUAL
      [] OTHER -> EQUAL

\* item2_p is a record for INT and STR, a string for SINGLESTR and (the
\* integer behind) a pointer to int for SINGLEINT.
CompareItemsWithKey(h, item1_p, item2_p, key) ==
    CASE key = INT -> CompareItems(h, item1_p, item2_p)
      [] key = STR ->
            IF strcmp(StringOf(h, item1_p), StringOf(h, item2_p)) = 0
            THEN EQUAL ELSE NOTEQUAL
      [] key = SINGLESTR ->
            IF strcmp(StringOf(h, item1_p), item2_p) = 0 THEN EQUAL ELSE NOTEQUAL
      [] key = SINGLEINT ->
            IF h[item1_p].number = item2_p THEN EQUAL ELSE NOTEQUAL
      [] OTHER -> NOTEQUAL

\* A copy that builds its list with g_list_prepend.
RECURSIVE CopyFromPrepend(_, _, _, _)
CopyFromPrepend(h, inputList, k, theCopy) ==
    IF k > Len(inputList) THEN [heap |-> h, ret |-> theCopy]
    ELSE LET node == h[inputList[k]].ptr
             n == NewItem(h, h[node].number, StringOf(h, node))
             a == g_list_prepend(n.heap, theCopy, n.ret)
         IN  CopyFromPrepend(a.heap, inputList, k + 1, a.ret)

\* A copy that appends the records of the input list themselves.
RECURSIVE CopyFromShallow(_, _, _, _)
CopyFromShallow(h, inputList, k, theCopy) ==
    IF k > Len(inputList) THEN [heap |-> h, ret |-> theCopy]
    ELSE LET node == h[inputList[k]].ptr
             a == g_list_append(h, theCopy, node)
         IN  CopyFromShallow(a.heap, inputList, k + 1, a.ret)

RECURSIVE CopyFrom(_, _, _, _)
CopyFrom(h, inputList, k, theCopy) ==
    IF k > Len(inputList) THEN [heap |-> h, ret |-> theCopy]
    ELSE LET node == h[inputList[k]].ptr
             n == NewItem(h, h[node].number, StringOf(h, node))
             a == g_list_append(n.heap, theCopy, n.ret)
         IN  CopyFrom(a.heap, inputList, k + 1, a.ret)

CopyList(h, inputList) ==
    IF inputList # <<>> THEN CopyFrom(h, inputList, 1, <<>>)
    ELSE [heap |-> h, ret |-> <<>>]

\* A search that goes on to the last element that matches.
FindFromLast(h, list, k, value_p, key) ==
    LET hits == {j \in k..Len(list) :
                    CompareItemsWithKey(h, h[list[j]].ptr, value_p, key) = 0}
    IN  IF hits = {} THEN NULL
        ELSE list[CHOOSE j \in hits : \A x \in hits : x <= j]

RECURSIVE FindFrom(_, _, _, _, _)
FindFrom(h, list, k, value_p, key) ==
    IF k > Len(list) THEN NULL
    ELSE IF CompareItemsWithKey(h, h[list[k]].ptr, value_p, key) = 0 THEN list[k]
    ELSE FindFrom(h, list, k + 1, value_p, key)

\* A search that starts at the second element.
FindInListSkipsHead(h, myList_p, value_p, key) == FindFrom(h, myList_p, 2, value_p, key)

FindInList(h, myList_p, value_p, key) == FindFrom(h, myList_p, 1, value_p, key)

\* g_list_sort: a stable sort of the cells by the comparison of their data.
RECURSIVE InsertSorted(_, _, _)
InsertSorted(h, sorted, cell) ==
    IF sorted = <<>> THEN <<cell>>
    ELSE IF CompareItems(h, h[cell].ptr, h[Head(sorted)].ptr) < 0
         THEN <<cell>> \o sorted
         ELSE <<Head(sorted)>> \o InsertSorted(h, Tail(sorted), cell)

RECURSIVE g_list_sort(_, _)
g_list_sort(h, list) ==
    IF list = <<>> THEN <<>>
    ELSE InsertSorted(h, g_list_sort(h, SubSeq(list, 1, Len(list) - 1)),
                      list[Len(list)])

\* ------------------------------------------------------------------ state
NoCall == [op |-> "none", a |-> NULL, b |-> 0, s |-> <<>>, key |-> 0, ret |-> 0]

\* No file is open.
TokIdle ==
    /\ lines = <<>> /\ stream = <<>> /\ pos = 0 /\ eof = FALSE /\ tpc = "closed"
    /\ c = 0 /\ i = 0 /\ sign = 1 /\ buffer = <<>> /\ oob = FALSE
    /\ ints = <<>> /\ strs = <<>>

\* Nothing has been printed and no call of PrintList is running.
RunIdle ==
    /\ fault = "none" /\ out = <<>> /\ ppc = "idle" /\ aux = 0 /\ caller = "none"

Init ==
    /\ heap = [a \in Addr |-> UnusedBlock]
    /\ theList_p = <<>>
    /\ item_p = <<>>
    /\ listSt = "live"
    /\ copySt = "none"
    /\ call = NoCall
    /\ TokIdle
    /\ RunIdle

Room(n) == Cardinality(Unused(heap)) >= n

LiveRecs == {a \in Addr : heap[a].kind = "rec" /\ heap[a].st = "live"}

\* What a list holds, block by block: the cell, the record and the string of
\* every position, with their allocation state.
View(h, list) ==
    [k \in 1..Len(list) |->
        [cell |-> h[list[k]],
         rec |-> h[h[list[k]].ptr],
         str |-> h[h[h[list[k]].ptr].ptr]]]

\* The addresses of all storage of a list.
Blocks(h, list) ==
    UNION {{list[k], h[list[k]].ptr, h[h[list[k]].ptr].ptr} : k \in 1..Len(list)}

\* The value a call was made with: a string for SINGLESTR, else call.b.
ValueOf(cl) == IF cl.key = SINGLESTR THEN cl.s ELSE cl.b

\* ---------------------------------------------------------------- actions
\* The client of the adapter performs the operations of the test driver, in
\* any order and on any data.

\* aNode_p = NewItem(number, string); theList_p = g_list_append(theList_p, aNode_p)
AppendItem ==
    /\ listSt = "live" /\ Len(theList_p) < MaxLen /\ Room(3)
    /\ \E n \in Numbers, s \in Strings :
        LET r == NewItem(heap, n, s)
            a == g_list_append(r.heap, theList_p, r.ret)
        IN  /\ heap' = a.heap
            /\ theList_p' = a.ret
            /\ call' = [NoCall EXCEPT !.op = "NewItem", !.a = r.ret, !.b = n,
                                      !.s = s, !.ret = r.ret]
    /\ UNCHANGED <<item_p, listSt, copySt, tokVars, runVars>>

\* aNode_p = NewItem(9, "..."); theList_p = g_list_prepend(theList_p, aNode_p)
PrependItem ==
    /\ listSt = "live" /\ Len(theList_p) < MaxLen /\ Room(3)
    /\ \E n \in Numbers, s \in Strings :
        LET r == NewItem(heap, n, s)
            a == g_list_prepend(r.heap, theList_p, r.ret)
        IN  /\ heap' = a.heap
            /\ theList_p' = a.ret
            /\ call' = [NoCall EXCEPT !.op = "NewItem", !.a = r.ret, !.b = n,
                                      !.s = s, !.ret = r.ret]
    /\ UNCHANGED <<item_p, listSt, copySt, tokVars, runVars>>

\* The removal of the element at position k followed by FreeItem of its data.
RemoveAt(k) ==
    LET aNode_p == heap[theList_p[k]].ptr
        r == g_list_remove(heap, theList_p, aNode_p)
        f == FreeItem(r.heap, aNode_p)
    IN  /\ heap' = f.heap
        /\ theList_p' = r.ret
        /\ call' = [NoCall EXCEPT !.op = "FreeItem", !.a = aNode_p,
                                  !.b = heap[aNode_p].ptr, !.ret = f.ret]
        /\ UNCHANGED <<item_p, listSt, copySt, tokVars, runVars>>

\* aNode_p = g_list_last(theList_p)->data; g_list_remove; FreeItem(aNode_p)
RemoveLast ==
    /\ listSt = "live" /\ theList_p # <<>>
    /\ RemoveAt(Len(theList_p))

\* aNode_p = g_list_first(theList_p)->data; g_list_remove; FreeItem(aNode_p)
RemoveFirst ==
    /\ listSt = "live" /\ theList_p # <<>>
    /\ RemoveAt(1)

\* item_p = FindInList(theList_p, value, key)
Find ==
    /\ call = NoCall
    /\ \E key \in Keys :
        \E v \in (IF key \in {INT, STR} THEN LiveRecs
                  ELSE IF key = SINGLESTR THEN SearchStrings
                  ELSE SearchNumbers) :
            call' = [NoCall EXCEPT !.op = "FindInList",
                                   !.b = IF key = SINGLESTR THEN 0 ELSE v,
                                   !.s = IF key = SINGLESTR THEN v ELSE <<>>,
                                   !.key = key,
                                   !.ret = FindInList(heap, theList_p, v, key)]
    /\ UNCHANGED <<heap, theList_p, item_p, listSt, copySt, tokVars, runVars>>

\* CompareItems(a, b), as g_list_sort calls it on the data of two cells.
Compare ==
    /\ call = NoCall
    /\ \E a \in LiveRecs, b \in LiveRecs :
        call' = [NoCall EXCEPT !.op = "CompareItems", !.a = a, !.b = b,
                               !.ret = CompareItems(heap, a, b)]
    /\ UNCHANGED <<heap, theList_p, item_p, listSt, copySt, tokVars, runVars>>

\* CompareItemsWithKey(a, value, key)
CompareWithKey ==
    /\ call = NoCall
    /\ \E a \in LiveRecs, key \in Keys :
        \E v \in (IF key \in {INT, STR} THEN LiveRecs
                  ELSE IF key = SINGLESTR THEN SearchStrings
                  ELSE SearchNumbers) :
            call' = [NoCall EXCEPT !.op = "CompareItemsWithKey", !.a = a,
                                   !.b = IF key = SINGLESTR THEN 0 ELSE v,
                                   !.s = IF key = SINGLESTR THEN v ELSE <<>>,
                                   !.key = key,
                                   !.ret = CompareItemsWithKey(heap, a, v, key)]
    /\ UNCHANGED <<heap, theList_p, item_p, listSt, copySt, tokVars, runVars>>

\* item_p = CopyList(theList_p)
Copy ==
    /\ listSt = "live" /\ copySt = "none" /\ Room(3 * Len(theList_p))
    /\ LET r == CopyList(heap, theList_p)
       IN  /\ heap' = r.heap
           /\ item_p' = r.ret
    /\ copySt' = "live"
    /\ call' = [NoCall EXCEPT !.op = "CopyList"]
    /\ UNCHANGED <<theList_p, listSt, tokVars, runVars>>

\* item_p = g_list_sort(item_p, CompareItems)
SortCopy ==
    /\ copySt = "live"
    /\ item_p' = g_list_sort(heap, item_p)
    /\ call' = [NoCall EXCEPT !.op = "g_list_sort"]
    /\ UNCHANGED <<heap, theList_p, listSt, copySt, tokVars, runVars>>

\* A store through the theString pointer of a record of the copy.
WriteCopyText ==
    /\ copySt = "live"
    /\ \E k \in 1..Len(item_p), ch \in {120} :
        LET str == heap[heap[item_p[k]].ptr].ptr
        IN  /\ heap[str].chars[1] # ch
            /\ heap' = [heap EXCEPT ![str].chars[1] = ch]
    /\ call' = [NoCall EXCEPT !.op = "WriteCopyText"]
    /\ UNCHANGED <<theList_p, item_p, listSt, copySt, tokVars, runVars>>

\* DestroyList(item_p)
DestroyCopy ==
    /\ copySt = "live"
    /\ LET r == DestroyList(heap, item_p)
       IN  /\ heap' = r.heap
           /\ call' = [NoCall EXCEPT !.op = "DestroyCopy", !.ret = r.ret]
    /\ copySt' = "destroyed"
    /\ UNCHANGED <<theList_p, item_p, listSt, tokVars, runVars>>

\* DestroyList(theList_p)
DestroyOrig ==
    /\ listSt = "live"
    /\ LET r == DestroyList(heap, theList_p)
       IN  /\ heap' = r.heap
           /\ call' = [NoCall EXCEPT !.op = "DestroyOrig", !.ret = r.ret]
    /\ listSt' = "destroyed"
    /\ UNCHANGED <<theList_p, item_p, copySt, tokVars, runVars>>

Next ==
    \/ AppendItem
    \/ PrependItem
    \/ RemoveLast
    \/ RemoveFirst
    \/ Copy
    \/ SortCopy
    \/ WriteCopyText
    \/ DestroyCopy
    \/ DestroyOrig

vars == <<listVars, tokVars, runVars>>

Spec == Init /\ [][Next]_vars

\* ------------------------------------------------- the query specification
\* The comparison and search functions applied to every list of at most
\* MaxLen records and one more record, all built by NewItem and
\* g_list_append from the numbers and strings below.
QNumbers == {-1, 0, 2}
Items == QNumbers \X Strings
ItemLists == UNION {[1..n -> Items] : n \in 0..MaxLen}

RECURSIVE Build(_, _, _, _)
Build(h, list, items, k) ==
    IF k > Len(items) THEN [heap |-> h, ret |-> list]
    ELSE LET r == NewItem(h, items[k][1], items[k][2])
             a == g_list_append(r.heap, list, r.ret)
         IN  Build(a.heap, a.ret, items, k + 1)

QInit ==
    /\ \E items \in ItemLists, other \in Items :
        LET b == Build([a \in Addr |-> UnusedBlock], <<>>, items, 1)
        IN  /\ heap = NewItem(b.heap, other[1], other[2]).heap
            /\ theList_p = b.ret
    /\ item_p = <<>>
    /\ listSt = "live"
    /\ copySt = "none"
    /\ call = NoCall
    /\ TokIdle
    /\ RunIdle

QNext ==
    \/ Compare
    \/ CompareWithKey
    \/ Find

QuerySpec == QInit /\ [][QNext]_vars

\* --------------------------------------------------------------- tokenizer
EOF == -1
BUFSIZE == 256
MaxLines == 2

isdigit(ch) == ch \in 48..57
isalpha(ch) == ch \in (65..90) \cup (97..122)

\* The decimal digits of n >= 0, as characters.
RECURSIVE Digits(_)
Digits(n) == IF n < 10 THEN <<48 + n>> ELSE Digits(n \div 10) \o <<48 + (n % 10)>>

\* An input line: a comment ('#', text), a record (optional minus, digits
\* with `pad` leading zeros, blanks, letters) or other text; nl tells whether
\* a newline ends it.
ComLine(text, nl) ==
    [kind |-> "comment", number |-> 0, pad |-> 0, blanks |-> <<>>, word |-> <<>>,
     text |-> text, nl |-> nl]
RecLine(number, pad, blanks, word) ==
    [kind |-> "record", number |-> number, pad |-> pad, blanks |-> blanks,
     word |-> word, text |-> <<>>, nl |-> TRUE]
RawLine(text, nl) ==
    [kind |-> "raw", number |-> 0, pad |-> 0, blanks |-> <<>>, word |-> <<>>,
     text |-> text, nl |-> nl]

Render(line) ==
    (CASE line.kind = "comment" -> <<35>> \o line.text
       [] line.kind = "record" ->
            (IF line.number < 0 THEN <<45>> ELSE <<>>)
            \o [k \in 1..line.pad |-> 48]
            \o Digits(IF line.number < 0 THEN 0 - line.number ELSE line.number)
            \o line.blanks \o line.word
       [] OTHER -> line.text)
    \o (IF line.nl THEN <<10>> ELSE <<>>)

RECURSIVE Flatten(_)
Flatten(ls) == IF ls = <<>> THEN <<>> ELSE Render(Head(ls)) \o Flatten(Tail(ls))

\* "#", "#a-1 #", "42 Hi", "-7  F", "-1 z", "05<TAB>a", "42Hi", "7", "- 5 a",
\* the blank line, ".#3 B", then the lines no newline ends: "#x" and "7 a".
LineSet ==
    { ComLine(<<>>, TRUE),
      ComLine(<<97, 45, 49, 32, 35>>, TRUE),
      RecLine(42, 0, <<32>>, <<72, 105>>),
      RecLine(-7, 0, <<32, 32>>, <<70>>),
      RecLine(-1, 0, <<32>>, <<122>>),
      RecLine(5, 1, <<9>>, <<97>>),
      RawLine(<<52, 50, 72, 105>>, TRUE),
      RawLine(<<55>>, TRUE),
      RawLine(<<45, 32, 53, 32, 97>>, TRUE),
      RawLine(<<>>, TRUE),
      RawLine(<<46, 35, 51, 32, 66>>, TRUE),
      ComLine(<<120>>, FALSE),
      RawLine(<<55, 32, 97>>, FALSE) }

\* A word of n letters.
Letters(n) == [k \in 1..n |-> 97 + (k % 3)]

\* The files: at most MaxLines lines, only the last of which may lack its
\* newline; and the one-record files whose word is as long as the buffer of
\* GetString, one letter shorter and one letter longer.
Files ==
    {f \in UNION {[1..n -> LineSet] : n \in 0..MaxLines} :
        \A k \in 1..(Len(f) - 1) : f[k].nl}
    \cup {<<RecLine(3, 0, <<32>>, Letters(n))>> : n \in (BUFSIZE - 1)..(BUFSIZE + 1)}

TokInit ==
    /\ heap = [a \in Addr |-> UnusedBlock]
    /\ theList_p = <<>>
    /\ item_p = <<>>
    /\ listSt = "live"
    /\ copySt = "none"
    /\ call = NoCall
    /\ lines \in Files
    /\ stream = Flatten(lines)
    /\ pos = 0 /\ eof = FALSE /\ tpc \in {"call_int", "call_str"}
    /\ c = 0 /\ i = 0 /\ sign = 1 /\ buffer = <<>> /\ oob = FALSE
    /\ ints = <<>> /\ strs = <<>>
    /\ fault = "none" /\ out = <<>> /\ ppc = "idle" /\ aux = 0
    /\ caller = "alternation"

\* getc: the next character, or EOF with the end-of-file indicator set.
AtEnd == pos >= Len(stream)
Getc == IF AtEnd THEN EOF ELSE stream[pos + 1]
PosAfterGetc == IF AtEnd THEN pos ELSE pos + 1
EofAfterGetc == eof \/ AtEnd

\* The caller calls GetInt and GetString in turn, starting with either, until
\* GetString returns NULL; the test driver passes every pair of results, also
\* the NULL, to NewItem.
AfterGetString(p) ==
    IF caller = "driver" THEN "new_item"
    ELSE IF p = NULL THEN "halt" ELSE "call_int"

\* number = GetInt(fp): entry, sign = 1.
CallGetInt ==
    /\ tpc = "call_int"
    /\ tpc' = "gi_skip"
    /\ sign' = 1
    /\ UNCHANGED <<listVars, runVars, lines, stream, pos, eof, c, i, buffer, oob, ints, strs>>

\* The end of an iteration of GetInt's skip loop, with character ch read:
\* the sign, the loop test, and the test of feof after the loop.
GetIntLoopEnd(ch, eof1) ==
    /\ sign' = IF ch = 45 THEN 0 - 1 ELSE sign
    /\ IF ~isdigit(ch) /\ ~eof1
       THEN tpc' = "gi_skip" /\ UNCHANGED <<i, ints, call>>
       ELSE IF eof1
            THEN /\ tpc' = "call_str" /\ ints' = Append(ints, EOF) /\ UNCHANGED i
                 /\ call' = [NoCall EXCEPT !.op = "GetIntEOF", !.ret = EOF]
            ELSE tpc' = "gi_digits" /\ i' = 0 /\ UNCHANGED <<ints, call>>

\* c = getc(fp) of the skip loop; a '#' enters the comment loop.
GetIntSkip ==
    /\ tpc = "gi_skip"
    /\ c' = Getc /\ pos' = PosAfterGetc /\ eof' = EofAfterGetc
    /\ IF Getc = 35
       THEN tpc' = "gi_comment" /\ UNCHANGED <<i, sign, ints, call>>
       ELSE GetIntLoopEnd(Getc, EofAfterGetc)
    /\ UNCHANGED <<memVars, runVars, lines, stream, buffer, oob, strs>>

\* do { c = getc(fp); } while (c != '\n');
GetIntComment ==
    /\ tpc = "gi_comment"
    /\ c' = Getc /\ pos' = PosAfterGetc /\ eof' = EofAfterGetc
    /\ IF Getc # 10
       THEN UNCHANGED <<tpc, i, sign, ints, call>>
       ELSE GetIntLoopEnd(Getc, EofAfterGetc)
    /\ UNCHANGED <<memVars, runVars, lines, stream, buffer, oob, strs>>

\* One iteration of the conversion loop.
GetIntDigit ==
    /\ tpc = "gi_digits"
    /\ isdigit(c) /\ ~eof
    /\ i' = (i * 10) + (c - 48)
    /\ c' = Getc /\ pos' = PosAfterGetc /\ eof' = EofAfterGetc
    /\ UNCHANGED <<listVars, runVars, lines, stream, tpc, sign, buffer, oob, ints, strs>>

\* A return of the digits converted, the sign left out.
GetIntReturnNoSign ==
    /\ tpc = "gi_digits"
    /\ ~(isdigit(c) /\ ~eof)
    /\ c' = Getc
    /\ IF Getc # EOF
       THEN pos' = pos /\ eof' = FALSE
       ELSE pos' = PosAfterGetc /\ eof' = EofAfterGetc
    /\ ints' = Append(ints, i)
    /\ call' = [NoCall EXCEPT !.op = "GetInt", !.ret = i]
    /\ tpc' = "call_str"
    /\ UNCHANGED <<memVars, runVars, lines, stream, i, sign, buffer, oob, strs>>

\* The loop is left: one character of lookahead, put back unless it is EOF,
\* and return (i*sign).
GetIntReturn ==
    /\ tpc = "gi_digits"
    /\ ~(isdigit(c) /\ ~eof)
    /\ c' = Getc
    /\ IF Getc # EOF
       THEN pos' = pos /\ eof' = FALSE
       ELSE pos' = PosAfterGetc /\ eof' = EofAfterGetc
    /\ ints' = Append(ints, i * sign)
    /\ call' = [NoCall EXCEPT !.op = "GetInt", !.ret = i * sign]
    /\ tpc' = "call_str"
    /\ UNCHANGED <<memVars, runVars, lines, stream, i, sign, buffer, oob, strs>>

\* string = GetString(fp): entry.
CallGetString ==
    /\ tpc = "call_str"
    /\ tpc' = "gs_skip"
    /\ UNCHANGED <<listVars, runVars, lines, stream, pos, eof, c, i, sign, buffer, oob, ints, strs>>

\* The end of an iteration of GetString's skip loop, with character ch read.
GetStringLoopEnd(ch, eof1) ==
    IF ~isalpha(ch) /\ ~eof1
    THEN tpc' = "gs_skip" /\ UNCHANGED <<i, buffer, strs, call>>
    ELSE IF eof1
         THEN /\ tpc' = AfterGetString(NULL) /\ strs' = Append(strs, NULL)
              /\ call' = [NoCall EXCEPT !.op = "GetStringNULL", !.ret = NULL]
              /\ UNCHANGED <<i, buffer>>
         ELSE tpc' = "gs_chars" /\ i' = 0 /\ buffer' = <<>> /\ UNCHANGED <<strs, call>>

GetStringSkip ==
    /\ tpc = "gs_skip"
    /\ c' = Getc /\ pos' = PosAfterGetc /\ eof' = EofAfterGetc
    /\ IF Getc = 35
       THEN tpc' = "gs_comment" /\ UNCHANGED <<i, buffer, strs, call>>
       ELSE GetStringLoopEnd(Getc, EofAfterGetc)
    /\ UNCHANGED <<memVars, runVars, lines, stream, sign, oob, ints>>

GetStringComment ==
    /\ tpc = "gs_comment"
    /\ c' = Getc /\ pos' = PosAfterGetc /\ eof' = EofAfterGetc
    /\ IF Getc # 10
       THEN UNCHANGED <<tpc, i, buffer, strs, call>>
       ELSE GetStringLoopEnd(Getc, EofAfterGetc)
    /\ UNCHANGED <<memVars, runVars, lines, stream, sign, oob, ints>>

\* One iteration of the accumulation loop: buffer[i] = c; i++; c = getc(fp).
GetStringChar ==
    /\ tpc = "gs_chars"
    /\ isalpha(c) /\ ~eof /\ i < BUFSIZE
    /\ buffer' = Append(buffer, c)
    /\ i' = i + 1
    /\ c' = Getc /\ pos' = PosAfterGetc /\ eof' = EofAfterGetc
    /\ UNCHANGED <<listVars, runVars, lines, stream, tpc, sign, oob, ints, strs>>

\* The loop is left: buffer[i] = '\0', one character of lookahead, and
\* return strdup(buffer).  With i = BUFSIZE the terminator is stored one past
\* the end of buffer, which is undefined: the store may go unnoticed or the
\* program may be aborted.
GetStringReturn ==
    /\ tpc = "gs_chars"
    /\ ~(isalpha(c) /\ ~eof /\ i < BUFSIZE)
    /\ oob' = (oob \/ i >= BUFSIZE)
    /\ \/ /\ c' = Getc
          /\ IF Getc # EOF
             THEN pos' = pos /\ eof' = FALSE
             ELSE pos' = PosAfterGetc /\ eof' = EofAfterGetc
          /\ LET r == strdup(heap, buffer)
             IN  /\ heap' = r.heap
                 /\ strs' = Append(strs, r.ret)
                 /\ call' = [NoCall EXCEPT !.op = "GetString", !.ret = r.ret]
                 /\ tpc' = AfterGetString(r.ret)
       \/ /\ i >= BUFSIZE
          /\ tpc' = "crashed"
          /\ UNCHANGED <<heap, c, pos, eof, strs, call>>
    /\ UNCHANGED <<theList_p, item_p, listSt, copySt, runVars, lines, stream, i, sign,
                   buffer, ints>>

TokNext ==
    \/ CallGetInt
    \/ GetIntSkip
    \/ GetIntComment
    \/ GetIntDigit
    \/ GetIntReturn
    \/ CallGetString
    \/ GetStringSkip
    \/ GetStringComment
    \/ GetStringChar
    \/ GetStringReturn

TokSpec == TokInit /\ [][TokNext]_vars

\* The same with the steps of the running call never postponed for ever.
TokLive == TokSpec /\ WF_vars(TokNext)

\* ------------------------------------------------- the driver's read loop
\* while (!feof(fp)) { number = GetInt(fp); string = GetString(fp);
\*   aNode_p = NewItem(number, string);
\*   theList_p = g_list_append(theList_p, aNode_p); }
DInit ==
    /\ heap = [a \in Addr |-> UnusedBlock]
    /\ theList_p = <<>>
    /\ item_p = <<>>
    /\ listSt = "live"
    /\ copySt = "none"
    /\ call = NoCall
    /\ lines \in Files
    /\ stream = Flatten(lines)
    /\ pos = 0 /\ eof = FALSE /\ tpc = "loop_test"
    /\ c = 0 /\ i = 0 /\ sign = 1 /\ buffer = <<>> /\ oob = FALSE
    /\ ints = <<>> /\ strs = <<>>
    /\ fault = "none" /\ out = <<>> /\ ppc = "idle" /\ aux = 0
    /\ caller = "driver"

\* while (!feof(fp))
DriverLoopTest ==
    /\ tpc = "loop_test"
    /\ tpc' = IF eof THEN "read_done" ELSE "call_int"
    /\ UNCHANGED <<listVars, runVars, lines, stream, pos, eof, c, i, sign, buffer, oob,
                   ints, strs>>

\* aNode_p = NewItem(number, string); theList_p = g_list_append(theList_p,
\* aNode_p), with the results of the last GetInt and GetString.  With string
\* = NULL, strdup(NULL) reads through the null pointer, which is undefined:
\* the process is killed, or it goes on with a record whose theString is
\* NULL.
DriverNewItem ==
    /\ tpc = "new_item" /\ Room(3)
    /\ LET number == ints[Len(ints)]
           string == strs[Len(strs)]
       IN  IF string = NULL
           THEN \/ /\ fault' = "killed" /\ tpc' = "crashed"
                   /\ call' = [NoCall EXCEPT !.op = "NewItem", !.b = number]
                   /\ UNCHANGED <<heap, theList_p>>
                \/ LET r == NewItemStrdupFails(heap, number, <<>>)
                       a == g_list_append(r.heap, theList_p, r.ret)
                   IN  /\ fault' = "went_on" /\ tpc' = "loop_test"
                       /\ heap' = a.heap
                       /\ theList_p' = a.ret
                       /\ call' = [NoCall EXCEPT !.op = "NewItem", !.a = r.ret,
                                                 !.b = number, !.ret = r.ret]
           ELSE LET r == NewItem(heap, number, heap[string].chars)
                    a == g_list_append(r.heap, theList_p, r.ret)
                IN  /\ tpc' = "loop_test"
                    /\ heap' = a.heap
                    /\ theList_p' = a.ret
                    /\ call' = [NoCall EXCEPT !.op = "NewItem", !.a = r.ret,
                                              !.b = number, !.s = heap[string].chars,
                                              !.ret = r.ret]
                    /\ UNCHANGED fault
    /\ UNCHANGED <<item_p, listSt, copySt, lines, stream, pos, eof, c, i, sign, buffer,
                   oob, ints, strs, out, ppc, aux, caller>>

DNext ==
    \/ DriverLoopTest
    \/ CallGetInt
    \/ GetIntSkip
    \/ GetIntComment
    \/ GetIntDigit
    \/ GetIntReturn
    \/ CallGetString
    \/ GetStringSkip
    \/ GetStringComment
    \/ GetStringChar
    \/ GetStringReturn
    \/ DriverNewItem

DriverSpec == DInit /\ [][DNext]_vars

\* ------------------------------------------------------- null and no memory
\* The adapter applied to null records, to null lists, to lists that hold
\* elements whose data is null, and NewItem when an allocation fails.

\* printf("Data Element: %d %s\n", number, theString): the line written.
DataElement == <<68, 97, 116, 97, 32, 69, 108, 101, 109, 101, 110, 116, 58, 32>>

Decimal(n) == IF n < 0 THEN <<45>> \o Digits(0 - n) ELSE Digits(n)

PrintItem(h, o, data_p) ==
    IF data_p = NULL THEN [out |-> o, ret |-> EXIT_FAILURE]
    ELSE [out |-> Append(o, DataElement \o Decimal(h[data_p].number) \o <<32>>
                              \o StringOf(h, data_p) \o <<10>>),
          ret |-> EXIT_SUCCESS]

\* The accesses through a null pointer.  CompareItems reads ->number of both
\* operands; CompareItemsWithKey reads both operands under every key of the
\* enum and none under another key; CopyList reads ->number of the data of
\* every element; FindInList compares the data of the elements in list order
\* until one compares equal.
CompareItemsReadsNull(item1_p, item2_p) == item1_p = NULL \/ item2_p = NULL

CompareItemsWithKeyReadsNull(item1_p, item2_p, key) ==
    CASE key = INT -> CompareItemsReadsNull(item1_p, item2_p)
      [] key = STR -> item1_p = NULL \/ item2_p = NULL
      [] key = SINGLESTR -> item1_p = NULL
      [] key = SINGLEINT -> item1_p = NULL
      [] OTHER -> FALSE

CopyListReadsNull(h, inputList) ==
    \E k \in 1..Len(inputList) : h[inputList[k]].ptr = NULL

RECURSIVE FindFromReadsNull(_, _, _, _, _)
FindFromReadsNull(h, list, k, value_p, key) ==
    IF k > Len(list) THEN FALSE
    ELSE IF CompareItemsWithKeyReadsNull(h[list[k]].ptr,
                                         IF key \in {INT, STR} THEN value_p ELSE 1, key)
         THEN TRUE
    ELSE IF CompareItemsWithKey(h, h[list[k]].ptr, value_p, key) = 0 THEN FALSE
    ELSE FindFromReadsNull(h, list, k + 1, value_p, key)

FindInListReadsNull(h, myList_p, value_p, key) ==
    FindFromReadsNull(h, myList_p, 1, value_p, key)

\* The data of the elements: a number and a string, or <<>> for null data.
NItems == Items \cup {<<>>}
NItemLists == UNION {[1..n -> NItems] : n \in 0..MaxLen}

RECURSIVE BuildN(_, _, _, _)
BuildN(h, list, items, k) ==
    IF k > Len(items) THEN [heap |-> h, ret |-> list]
    ELSE IF items[k] = <<>>
         THEN LET a == g_list_append(h, list, NULL)
              IN  BuildN(a.heap, a.ret, items, k + 1)
         ELSE LET r == NewItem(h, items[k][1], items[k][2])
                  a == g_list_append(r.heap, list, r.ret)
              IN  BuildN(a.heap, a.ret, items, k + 1)

NInit ==
    /\ \E items \in NItemLists :
        LET b == BuildN([a \in Addr |-> UnusedBlock], <<>>, items, 1)
        IN  /\ heap = NewItem(b.heap, 0, <<97>>).heap
            /\ theList_p = b.ret
    /\ item_p = <<>>
    /\ listSt = "live"
    /\ copySt = "none"
    /\ call = NoCall
    /\ TokIdle
    /\ RunIdle

\* No call has been made yet.
Quiet == call = NoCall /\ ppc = "idle" /\ fault = "none"

RecsOrNull == LiveRecs \cup {NULL}

\* A null pointer is dereferenced, which is undefined: the process is killed,
\* or it goes on and the call returns anything.
Undefined(op, a, b, key) ==
    \/ /\ fault' = "killed"
       /\ call' = [NoCall EXCEPT !.op = op, !.a = a, !.b = b, !.key = key]
    \/ /\ fault' = "went_on"
       /\ \E r \in -1..2 :
            call' = [NoCall EXCEPT !.op = op, !.a = a, !.b = b, !.key = key, !.ret = r]

\* PrintItem(p)
NPrintItem ==
    /\ Quiet
    /\ \E p \in RecsOrNull :
        LET r == PrintItem(heap, out, p)
        IN  /\ out' = r.out
            /\ call' = [NoCall EXCEPT !.op = "PrintItem", !.a = p, !.ret = r.ret]
    /\ UNCHANGED <<memVars, tokVars, fault, ppc, aux, caller>>

\* FreeItem(p)
NFreeItem ==
    /\ Quiet
    /\ \E p \in RecsOrNull :
        LET r == FreeItem(heap, p)
        IN  /\ heap' = r.heap
            /\ call' = [NoCall EXCEPT !.op = "FreeItem", !.a = p,
                                      !.b = IF p = NULL THEN NULL ELSE heap[p].ptr,
                                      !.ret = r.ret]
    /\ UNCHANGED <<theList_p, item_p, listSt, copySt, tokVars, runVars>>

\* DestroyList(theList_p)
NDestroyList == Quiet /\ DestroyOrig

\* PrintList(theList_p), of UserDefined.c or of the older file: the test of
\* myList_p and aux = myList_p.
CallPrintList ==
    /\ Quiet
    /\ \E def \in {"PrintList", "PrintList_old"} :
        IF theList_p = <<>>
        THEN /\ call' = [NoCall EXCEPT !.op = def, !.ret = EXIT_FAILURE]
             /\ ppc' = "done"
             /\ UNCHANGED aux
        ELSE /\ call' = [NoCall EXCEPT !.op = def]
             /\ ppc' = IF def = "PrintList" THEN "pl_loop" ELSE "old_loop"
             /\ aux' = 1
    /\ UNCHANGED <<memVars, tokVars, fault, out, caller>>

\* while (aux != NULL) { if (PrintItem(aux->data) == EXIT_FAILURE) return
\* EXIT_FAILURE; aux = aux->next; } return EXIT_SUCCESS;
PrintListLoop ==
    /\ ppc = "pl_loop"
    /\ IF aux > Len(theList_p)
       THEN /\ ppc' = "done" /\ call' = [call EXCEPT !.ret = EXIT_SUCCESS]
            /\ UNCHANGED <<out, aux>>
       ELSE LET r == PrintItem(heap, out, heap[theList_p[aux]].ptr)
            IN  IF r.ret = EXIT_FAILURE
                THEN /\ ppc' = "done" /\ call' = [call EXCEPT !.ret = EXIT_FAILURE]
                     /\ UNCHANGED <<out, aux>>
                ELSE /\ out' = r.out /\ aux' = aux + 1
                     /\ UNCHANGED <<ppc, call>>
    /\ UNCHANGED <<memVars, tokVars, fault, caller>>

\* while (aux != NULL) { } return EXIT_SUCCESS; of the older file: the body
\* is empty, so an iteration changes nothing ("old_spin": an iteration has
\* been made) and aux is never advanced.
OldPrintListLoop ==
    /\ ppc \in {"old_loop", "old_spin"}
    /\ IF aux > Len(theList_p)
       THEN ppc' = "done" /\ call' = [call EXCEPT !.ret = EXIT_SUCCESS]
       ELSE ppc' = "old_spin" /\ UNCHANGED call
    /\ UNCHANGED <<memVars, tokVars, fault, out, aux, caller>>

PrintListSteps == PrintListLoop \/ OldPrintListLoop

\* CompareItems(a, b)
NCompare ==
    /\ Quiet
    /\ \E a \in RecsOrNull, b \in RecsOrNull :
        IF CompareItemsReadsNull(a, b)
        THEN Undefined("CompareItems", a, b, 0)
        ELSE /\ call' = [NoCall EXCEPT !.op = "CompareItems", !.a = a, !.b = b,
                                       !.ret = CompareItems(heap, a, b)]
             /\ UNCHANGED fault
    /\ UNCHANGED <<memVars, tokVars, out, ppc, aux, caller>>

\* CompareItemsWithKey(a, value, key)
NCompareWithKey ==
    /\ Quiet
    /\ \E a \in RecsOrNull, key \in Keys :
        \E v \in (IF key \in {INT, STR} THEN RecsOrNull
                  ELSE IF key = SINGLESTR THEN SearchStrings
                  ELSE SearchNumbers) :
            IF CompareItemsWithKeyReadsNull(a, IF key \in {INT, STR} THEN v ELSE 1, key)
            THEN Undefined("CompareItemsWithKey", a, IF key = SINGLESTR THEN 0 ELSE v, key)
            ELSE /\ call' = [NoCall EXCEPT !.op = "CompareItemsWithKey", !.a = a,
                                           !.b = IF key = SINGLESTR THEN 0 ELSE v,
                                           !.s = IF key = SINGLESTR THEN v ELSE <<>>,
                                           !.key = key,
                                           !.ret = CompareItemsWithKey(heap, a, v, key)]
                 /\ UNCHANGED fault
    /\ UNCHANGED <<memVars, tokVars, out, ppc, aux, caller>>

\* item_p = FindInList(theList_p, value, key)
NFind ==
    /\ Quiet
    /\ \E key \in Keys :
        \E v \in (IF key \in {INT, STR} THEN LiveRecs
                  ELSE IF key = SINGLESTR THEN SearchStrings
                  ELSE SearchNumbers) :
            IF FindInListReadsNull(heap, theList_p, v, key)
            THEN Undefined("FindInList", NULL, IF key = SINGLESTR THEN 0 ELSE v, key)
            ELSE /\ call' = [NoCall EXCEPT !.op = "FindInList",
                                           !.b = IF key = SINGLESTR THEN 0 ELSE v,
                                           !.s = IF key = SINGLESTR THEN v ELSE <<>>,
                                           !.key = key,
                                           !.ret = FindInList(heap, theList_p, v, key)]
                 /\ UNCHANGED fault
    /\ UNCHANGED <<memVars, tokVars, out, ppc, aux, caller>>

\* item_p = CopyList(theList_p)
NCopy ==
    /\ Quiet
    /\ IF CopyListReadsNull(heap, theList_p)
       THEN /\ Undefined("CopyList", NULL, 0, 0)
            /\ UNCHANGED <<memVars, tokVars, out, ppc, aux, caller>>
       ELSE Copy

\* aNode_p = NewItem(2, "a") when memory may be short; call.key counts the
\* allocations that failed.
NNewItem ==
    /\ Quiet /\ Room(2)
    /\ \E mallocOk \in BOOLEAN, strdupOk \in BOOLEAN :
        IF ~mallocOk
        THEN /\ Undefined("NewItem", NULL, 2, IF strdupOk THEN 1 ELSE 2)
             /\ UNCHANGED heap
        ELSE LET r == IF strdupOk THEN NewItem(heap, 2, <<97>>)
                      ELSE NewItemStrdupFails(heap, 2, <<97>>)
             IN  /\ heap' = r.heap
                 /\ call' = [NoCall EXCEPT !.op = "NewItem", !.a = r.ret, !.b = 2,
                                           !.s = <<97>>,
                                           !.key = IF strdupOk THEN 0 ELSE 1,
                                           !.ret = r.ret]
                 /\ UNCHANGED fault
    /\ UNCHANGED <<theList_p, item_p, listSt, copySt, tokVars, out, ppc, aux, caller>>

NNext ==
    \/ NPrintItem
    \/ NFreeItem
    \/ NDestroyList
    \/ CallPrintList
    \/ PrintListLoop
    \/ OldPrintListLoop
    \/ NCompare
    \/ NCompareWithKey
    \/ NFind
    \/ NCopy
    \/ NNewItem

NullSpec == NInit /\ [][NNext]_vars

\* The same with the steps of a running PrintList never postponed for ever.
NullLive == NullSpec /\ WF_vars(PrintListSteps)

\* ------------------------------------------------------------------ claims

\* C1: after FreeItem(NewItem(number, text)) returns EXIT_SUCCESS, the record
\* struct and the copied string have both been released, each exactly once.
\* (FreeItem releases the struct alone, so this is violated.)
C1_FreeItemReleasesBoth ==
    (call.op = "FreeItem" /\ call.ret = EXIT_SUCCESS) =>
        /\ heap[call.a].st = "freed" /\ heap[call.a].frees = 1
        /\ heap[call.b].st = "freed" /\ heap[call.b].frees = 1

\* C2: CopyList(L) returns a list of the length of L whose i-th record has
\* the number and the string of the i-th record of L; NULL for the NULL list.
C2_CopyListSameContent ==
    call.op = "CopyList" =>
        /\ Len(item_p) = Len(theList_p)
        /\ \A k \in 1..Len(theList_p) :
            /\ heap[heap[item_p[k]].ptr].number = heap[heap[theList_p[k]].ptr].number
            /\ StringOf(heap, heap[item_p[k]].ptr) = StringOf(heap, heap[theList_p[k]].ptr)
        /\ (theList_p = <<>> => item_p = <<>>)

C2_Witness ==
    /\ call.op = "CopyList"
    /\ Len(theList_p) = 2
    /\ heap[heap[theList_p[1]].ptr].number # heap[heap[theList_p[2]].ptr].number
    /\ StringOf(heap, heap[theList_p[1]].ptr) # StringOf(heap, heap[theList_p[2]].ptr)

\* C3: the copy lives in storage distinct from all storage of the original,
\* so writing a copied record's text, sorting the copy or destroying the copy
\* leaves every block of the original unchanged and allocated, and destroying
\* the original leaves every block of the copy unchanged.
C3_Distinct ==
    /\ copySt = "live" => Blocks(heap, item_p) \cap Blocks(heap, theList_p) = {}
    /\ listSt = "live" => \A a \in Blocks(heap, theList_p) : heap[a].st = "live"

C3_Frame ==
    /\ call'.op \in {"WriteCopyText", "g_list_sort", "DestroyCopy"} =>
            View(heap, theList_p)' = View(heap, theList_p)
    /\ call'.op = "DestroyOrig" => View(heap, item_p)' = View(heap, item_p)

C3_CopyIndependent == []C3_Distinct /\ [][C3_Frame]_vars

C3_Witness ==
    /\ call.op = "DestroyCopy" /\ call.ret = EXIT_SUCCESS
    /\ listSt = "live" /\ Len(theList_p) = 2

\* C4: CompareItems is a total order decided by the numbers alone: LESS iff
\* a.number < b.number, GREATER iff >, EQUAL iff =, whatever the strings;
\* hence reflexive, antisymmetric (cmp(a,b) = -cmp(b,a)) and transitive.
LessEq(a, b) == CompareItems(heap, a, b) \in {LESS, EQUAL}

C4_CompareItemsTotalOrder ==
    /\ call.op = "CompareItems" =>
        /\ call.ret = LESS <=> heap[call.a].number < heap[call.b].number
        /\ call.ret = GREATER <=> heap[call.a].number > heap[call.b].number
        /\ call.ret = EQUAL <=> heap[call.a].number = heap[call.b].number
    /\ \A a \in LiveRecs : CompareItems(heap, a, a) = EQUAL
    /\ \A a \in LiveRecs, b \in LiveRecs :
        CompareItems(heap, a, b) = 0 - CompareItems(heap, b, a)
    /\ \A x \in LiveRecs, y \in LiveRecs, z \in LiveRecs :
        (LessEq(x, y) /\ LessEq(y, z)) => LessEq(x, z)

C4_Witness ==
    /\ call.op = "CompareItems" /\ call.ret = EQUAL /\ call.a # call.b
    /\ StringOf(heap, call.a) # StringOf(heap, call.b)
    /\ \E z \in LiveRecs : heap[call.b].number < heap[z].number

\* C5: CompareItemsWithKey(a, b, STR) is EQUAL iff the two strings are the
\* same character for character and NOTEQUAL otherwise, never LESS or
\* GREATER, whatever the numbers.
C5_StrKeyEquality ==
    (call.op = "CompareItemsWithKey" /\ call.key = STR) =>
        /\ call.ret = EQUAL <=>
            /\ Len(StringOf(heap, call.a)) = Len(StringOf(heap, call.b))
            /\ \A k \in 1..Len(StringOf(heap, call.a)) :
                StringOf(heap, call.a)[k] = StringOf(heap, call.b)[k]
        /\ call.ret \in {EQUAL, NOTEQUAL}

C5_Witness ==
    /\ call.op = "CompareItemsWithKey" /\ call.key = STR
    /\ call.ret = NOTEQUAL
    /\ heap[call.a].number = heap[call.b].number

\* C6: CompareItemsWithKey(a, b, INT) returns what CompareItems(a, b)
\* returns, and INT is the only key under which CompareItemsWithKey returns
\* LESS or GREATER.
C6_IntKeyDelegates ==
    call.op = "CompareItemsWithKey" =>
        /\ call.key = INT =>
            /\ call.ret = CompareItems(heap, call.a, call.b)
            /\ call.ret = LESS <=> heap[call.a].number < heap[call.b].number
            /\ call.ret = GREATER <=> heap[call.a].number > heap[call.b].number
        /\ call.key # INT => call.ret \notin {LESS, GREATER}

C6_Witness ==
    /\ call.op = "CompareItemsWithKey" /\ call.key = INT
    /\ call.ret = GREATER

\* C7: with SINGLEINT and an integer v the result is EQUAL iff a.number = v,
\* with SINGLESTR and a string s it is EQUAL iff a's string is s, NOTEQUAL
\* otherwise; with a key outside {INT, STR, SINGLEINT, SINGLESTR} it is
\* NOTEQUAL for all operands.
C7_ScalarKeys ==
    call.op = "CompareItemsWithKey" =>
        /\ call.key = SINGLEINT =>
            call.ret = (IF heap[call.a].number = call.b THEN EQUAL ELSE NOTEQUAL)
        /\ call.key = SINGLESTR =>
            call.ret = (IF StringOf(heap, call.a) = call.s THEN EQUAL ELSE NOTEQUAL)
        /\ call.key \notin {INT, STR, SINGLEINT, SINGLESTR} => call.ret = NOTEQUAL

C7_Witness ==
    /\ call.op = "CompareItemsWithKey" /\ call.key = SINGLEINT
    /\ call.ret = NOTEQUAL
    /\ call.b \in {heap[a].number : a \in LiveRecs}

\* C8: FindInList(L, v, key) returns NULL iff no element of L compares EQUAL
\* to v under key, and a non-NULL result is an element of L whose record
\* compares EQUAL to v under key.
C8_FindInListCorrect ==
    call.op = "FindInList" =>
        /\ call.ret = NULL <=>
            ~ \E k \in 1..Len(theList_p) :
                CompareItemsWithKey(heap, heap[theList_p[k]].ptr, ValueOf(call),
                                    call.key) = EQUAL
        /\ call.ret # NULL =>
            /\ \E k \in 1..Len(theList_p) : theList_p[k] = call.ret
            /\ CompareItemsWithKey(heap, heap[call.ret].ptr, ValueOf(call),
                                   call.key) = EQUAL

C8_Witness ==
    /\ call.op = "FindInList" /\ call.key = SINGLESTR
    /\ call.ret = NULL
    /\ Len(theList_p) = 2

\* The numbers and the words of the record lines of a file, in input order.
RECURSIVE RecordsOf(_)
RecordsOf(ls) ==
    IF ls = <<>> THEN <<>>
    ELSE (IF Head(ls).kind = "record" THEN <<Head(ls)>> ELSE <<>>)
         \o RecordsOf(Tail(ls))

WellFormed(ls) == \A k \in 1..Len(ls) : ls[k].kind \in {"comment", "record"} /\ ls[k].nl

\* What GetString returned: the word behind each pointer, <<EOF>> for NULL
\* (no word holds that character).
Returned(p) == IF p = NULL THEN <<EOF>> ELSE heap[p].chars

\* The calls have ended, having started with GetInt.
AlternationDone == tpc = "halt" /\ Len(ints) = Len(strs)

\* The numbers and the words returned are those of the record lines, in
\* input order, followed by EOF and NULL.
ReturnedTheRecords ==
    LET recs == RecordsOf(lines)
    IN  /\ ints = [k \in 1..Len(recs) |-> recs[k].number] \o <<EOF>>
        /\ [k \in 1..Len(strs) |-> Returned(strs[k])]
             = [k \in 1..Len(recs) |-> recs[k].word] \o << <<EOF>> >>

\* C9, as stated: on a file of comment lines and record lines, each ended by
\* a newline, alternating calls GetInt, GetString return exactly the numbers
\* and the words of the record lines in input order, nothing of a comment
\* line, and after the last record GetInt returns EOF and GetString returns
\* NULL.  (A word of more than BUFSIZE letters is cut, so this is violated.)
C9_AsStated ==
    (AlternationDone /\ WellFormed(lines)) => ReturnedTheRecords

\* C9, amended: the same for the files whose words have fewer than BUFSIZE
\* letters.
C9_TokenizerRoundTrip ==
    (/\ AlternationDone /\ WellFormed(lines)
     /\ \A k \in 1..Len(lines) : Len(lines[k].word) < BUFSIZE) => ReturnedTheRecords

C9_Witness ==
    /\ AlternationDone /\ WellFormed(lines)
    /\ Len(lines) = 2
    /\ lines[1].kind = "comment" /\ lines[1].text # <<>>
    /\ lines[2].kind = "record" /\ lines[2].number < 0

\* C10: GetInt and GetString terminate on every finite input, also when the
\* last line is a '#' comment that no newline ends: every sequence of calls
\* comes to its end.  (In the comment loop at the end of the stream getc
\* returns EOF for ever and the loop is never left, so this is violated.)
C10_Terminates == <>(tpc \in {"halt", "crashed"})

\* The calls that do end on a file that is one comment line return EOF and
\* NULL.
CommentOnlyReturnsEnd ==
    (tpc = "halt" /\ Len(lines) = 1 /\ lines[1].kind = "comment") =>
        /\ \A k \in 1..Len(ints) : ints[k] = EOF
        /\ \A k \in 1..Len(strs) : strs[k] = NULL

\* The only states in which a running call cannot change the state are those
\* of the comment loops at the end of the stream.
StuckOnlyInCommentLoop ==
    (tpc \notin {"halt", "crashed"} /\ ~ ENABLED <<TokNext>>_vars) =>
        (tpc \in {"gi_comment", "gs_comment"} /\ eof /\ c = EOF)

\* GetInt has just returned a number it parsed.
GetIntReturned == call.op = "GetInt" /\ tpc = "call_str"

\* The digit run that ends at the stream position of a return of GetInt: the
\* position of its last digit (the character last consumed, or the one before
\* it), of its first digit, and its value.
LastDigit == IF pos >= 1 /\ isdigit(stream[pos]) THEN pos ELSE pos - 1

RECURSIVE RunStart(_)
RunStart(e) == IF e > 1 /\ isdigit(stream[e - 1]) THEN RunStart(e - 1) ELSE e

RECURSIVE RunValue(_, _)
RunValue(f, e) == IF e < f THEN 0 ELSE (RunValue(f, e - 1) * 10) + (stream[e] - 48)

\* C11: whenever GetInt returns a parsed number the stream is positioned
\* immediately after the last digit of the number: the character last
\* consumed is that digit, so that no character following the number has been
\* consumed; on the line "42Hi" the following GetString returns "Hi".
\* (The conversion loop consumes the character that ends the digits and only
\* the one after it is put back, so this is violated.)
C11_GetIntLeavesStreamAfterNumber ==
    /\ GetIntReturned => (pos >= 1 /\ isdigit(stream[pos]))
    /\ (/\ call.op = "GetString" /\ Len(ints) = 1 /\ Len(strs) = 1
        /\ lines = <<RawLine(<<52, 50, 72, 105>>, TRUE)>>) =>
            Returned(strs[1]) = <<72, 105>>

\* What GetInt does: unless the digits end the stream, the character that
\* follows them has been consumed too, and no more.
GetIntConsumesOnePastNumber ==
    GetIntReturned =>
        \/ pos = Len(stream) /\ isdigit(stream[pos])
        \/ pos >= 2 /\ ~isdigit(stream[pos]) /\ isdigit(stream[pos - 1])

\* C12: GetInt returns the negated value of the digit run it converts iff a
\* '-' immediately precedes the digit run in the input; a '-' skipped earlier
\* and separated from the first digit by another character does not change
\* the sign.  (sign is set by any '-' the skip loop reads, so "- 5" gives -5
\* and this is violated.)
C12_SignOnlyFromAdjacentMinus ==
    GetIntReturned =>
        LET f == RunStart(LastDigit)
            v == RunValue(f, LastDigit)
        IN  call.ret = (IF f > 1 /\ stream[f - 1] = 45 THEN 0 - v ELSE v)

\* C13: GetString stores at most BUFSIZE characters, the terminator included:
\* no store is made outside buffer[0 .. BUFSIZE-1] and a returned word has at
\* most BUFSIZE - 1 letters.  (After BUFSIZE letters the terminator is stored
\* at buffer[BUFSIZE], so this is violated.)
C13_GetStringWithinBuffer ==
    /\ ~oob
    /\ \A k \in 1..Len(strs) : strs[k] # NULL => Len(heap[strs[k]].chars) <= BUFSIZE - 1

\* What GetString does: a word of fewer than BUFSIZE letters is stored within
\* the buffer, and a store outside it is made only after BUFSIZE letters.
GetStringOverrunOnlyAtBufsize ==
    /\ oob => \E k \in 1..Len(lines) : Len(lines[k].word) >= BUFSIZE
    /\ \A k \in 1..Len(strs) : strs[k] # NULL => Len(heap[strs[k]].chars) <= BUFSIZE

\* C14: NewItem is all-or-nothing when an allocation fails: it dereferences
\* no null pointer, it reports a failed allocation to its caller (it returns
\* NULL), and it never returns a record whose theString is NULL.  (NewItem
\* tests neither malloc's result nor strdup's, so this is violated.)
C14_NewItemAllOrNothing ==
    call.op = "NewItem" =>
        /\ fault = "none"
        /\ call.key > 0 => call.ret = NULL
        /\ call.ret # NULL =>
            (heap[call.ret].st = "live" /\ heap[call.ret].ptr # NULL)

\* What NewItem does when strdup alone fails: it returns the record, with
\* theString = NULL.
NewItemReturnsHalfBuilt ==
    (call.op = "NewItem" /\ call.key = 1 /\ fault = "none") =>
        (call.ret # NULL /\ heap[call.ret].ptr = NULL)

\* C15: FreeItem(NULL) and PrintItem(NULL) return EXIT_FAILURE, nothing being
\* deallocated and nothing written; for a non-null record both return
\* EXIT_SUCCESS.
C15_NullItemFails ==
    /\ call.op = "FreeItem" =>
        IF call.a = NULL
        THEN call.ret = EXIT_FAILURE /\ \A a \in Addr : heap[a].st # "freed"
        ELSE call.ret = EXIT_SUCCESS
    /\ call.op = "PrintItem" =>
        IF call.a = NULL
        THEN call.ret = EXIT_FAILURE /\ out = <<>>
        ELSE call.ret = EXIT_SUCCESS /\ Len(out) = 1

C15_Witness ==
    /\ call.op = "FreeItem" /\ call.a = NULL /\ call.ret = EXIT_FAILURE
    /\ Len(theList_p) = 2

\* The position of the first element of theList_p whose data is null, or
\* Len(theList_p) + 1.
FirstNull ==
    LET nulls == {k \in 1..Len(theList_p) : heap[theList_p[k]].ptr = NULL}
    IN  IF nulls = {} THEN Len(theList_p) + 1
        ELSE CHOOSE k \in nulls : \A j \in nulls : k <= j

\* The line PrintItem writes for the element at position k.
LineOf(k) ==
    LET data_p == heap[theList_p[k]].ptr
    IN  DataElement \o Decimal(heap[data_p].number) \o <<32>> \o StringOf(heap, data_p)
        \o <<10>>

PrintListDone == call.op = "PrintList" /\ ppc = "done"

\* C16: PrintList and DestroyList, on a list whose first element with null
\* data is at position k, return EXIT_FAILURE having printed (freed) exactly
\* the elements before k, in order, and none at or after k; when no element
\* has null data every element is processed exactly once and EXIT_SUCCESS is
\* returned.  The NULL list is not traversed: EXIT_FAILURE, nothing done.
C16_HaltsAtFirstNull ==
    /\ call.op = "DestroyOrig" =>
        /\ \A k \in 1..Len(theList_p) :
            heap[theList_p[k]].ptr # NULL =>
                /\ heap[heap[theList_p[k]].ptr].frees = (IF k < FirstNull THEN 1 ELSE 0)
                /\ heap[heap[theList_p[k]].ptr].st = (IF k < FirstNull THEN "freed" ELSE "live")
        /\ call.ret = (IF theList_p # <<>> /\ FirstNull > Len(theList_p)
                       THEN EXIT_SUCCESS ELSE EXIT_FAILURE)
    /\ PrintListDone =>
        /\ out = [k \in 1..(FirstNull - 1) |-> LineOf(k)]
        /\ call.ret = (IF theList_p # <<>> /\ FirstNull > Len(theList_p)
                       THEN EXIT_SUCCESS ELSE EXIT_FAILURE)

C16_Witness ==
    /\ call.op = "DestroyOrig" /\ call.ret = EXIT_FAILURE
    /\ Len(theList_p) = 2 /\ FirstNull = 2

\* The same of PrintList: a record printed, then the null data.
PrintListHaltsWitness ==
    /\ PrintListDone /\ call.ret = EXIT_FAILURE
    /\ Len(theList_p) = 2 /\ FirstNull = 2 /\ Len(out) = 1

\* C17: after DestroyList(L) has returned EXIT_SUCCESS on a non-empty list all
\* memory of the list is deallocated: the records and the list nodes, no
\* block reachable from L being still allocated.  (DestroyList frees the
\* records alone, so this is violated.)
C17_DestroyListFreesAll ==
    /\ (call.op = "DestroyOrig" /\ call.ret = EXIT_SUCCESS /\ theList_p # <<>>) =>
        \A a \in Blocks(heap, theList_p) : heap[a].st = "freed"
    /\ (call.op = "DestroyCopy" /\ call.ret = EXIT_SUCCESS /\ item_p # <<>>) =>
        \A a \in Blocks(heap, item_p) : heap[a].st = "freed"

\* What DestroyList does: the records are freed once; the list nodes and the
\* strings stay allocated.
DestroyListFreesRecordsOnly ==
    (call.op = "DestroyOrig" /\ call.ret = EXIT_SUCCESS) =>
        \A k \in 1..Len(theList_p) :
            /\ heap[theList_p[k]].st = "live"
            /\ heap[heap[theList_p[k]].ptr].st = "freed"
            /\ heap[heap[theList_p[k]].ptr].frees = 1
            /\ heap[heap[heap[theList_p[k]].ptr].ptr].st = "live"

\* C18: an adapter operation invoked on a null record, on a null list or on a
\* list with an element whose data is null never dereferences the null
\* pointer, and reports the condition through its return value.
\* (CompareItems, CompareItemsWithKey, CopyList and FindInList read through
\* the pointer without a test, so this is violated.)
C18_NullNeverDereferenced ==
    /\ call.op \in {"PrintItem", "FreeItem", "PrintList", "DestroyOrig", "CompareItems",
                    "CompareItemsWithKey", "CopyList", "FindInList"} => fault = "none"
    /\ (call.op \in {"PrintItem", "FreeItem"} /\ call.a = NULL) =>
        call.ret = EXIT_FAILURE
    /\ ((call.op = "DestroyOrig" \/ PrintListDone) /\ FirstNull <= Len(theList_p)) =>
        call.ret = EXIT_FAILURE
    /\ ((call.op = "DestroyOrig" \/ PrintListDone) /\ theList_p = <<>>) =>
        call.ret = EXIT_FAILURE
    /\ (call.op \in {"CopyList", "FindInList"} /\ theList_p = <<>>) =>
        (call.ret = NULL /\ item_p = <<>>)

\* The operations that test for null: the four that return EXIT_FAILURE, and
\* CopyList and FindInList on the NULL list.
NullTestedByPrintAndFree ==
    (/\ call.op \in {"PrintItem", "FreeItem", "PrintList", "DestroyOrig"}
        \/ (call.op \in {"CopyList", "FindInList"} /\ theList_p = <<>>))
        => fault = "none"

\* A call of either PrintList is running.
PrintListRunning == ppc \in {"pl_loop", "old_loop", "old_spin"}

\* C20: both definitions of PrintList, that of UserDefined.c and the older
\* one, terminate on every non-empty list, and on a list of records they have
\* then visited (printed) each element exactly once, in list order.  (The
\* loop of the older definition never advances aux and never ends, so this
\* is violated.)
C20_PrintListTerminates ==
    /\ [](PrintListRunning => <>(ppc = "done"))
    /\ []((/\ ppc = "done" /\ call.op \in {"PrintList", "PrintList_old"}
           /\ theList_p # <<>> /\ FirstNull > Len(theList_p)) =>
                out = [k \in 1..Len(theList_p) |-> LineOf(k)])

\* The PrintList of UserDefined.c does terminate.
PrintListOfUserDefinedTerminates ==
    []((call.op = "PrintList" /\ PrintListRunning) => <>(ppc = "done"))

\* What the older PrintList does on a non-empty list: nothing is printed and
\* it does not return.
OldPrintListPrintsNothing ==
    (call.op = "PrintList_old" /\ theList_p # <<>>) => (out = <<>> /\ ppc # "done")

\* The driver has just called NewItem.
DriverCalledNewItem == call.op = "NewItem" /\ tpc \in {"loop_test", "crashed"}

\* C19: on every input file the driver's read loop passes no absent result
\* on: NewItem is called with a string that is not NULL, hence (see
\* AbsentNumberComesWithNull) with a number GetInt parsed, no null pointer is
\* dereferenced, and the loop ends with exactly one record appended per
\* record of the file.  (On the empty file, and after a last blank or comment
\* line, GetInt returns EOF and GetString NULL, and both are passed to
\* NewItem, so this is violated.)
C19_DriverPassesOnlyResults ==
    /\ fault = "none"
    /\ DriverCalledNewItem =>
        (strs[Len(strs)] # NULL /\ call.ret # NULL /\ heap[call.ret].ptr # NULL)
    /\ (tpc = "read_done" /\ WellFormed(lines)) =>
        Len(theList_p) = Len(RecordsOf(lines))

\* GetInt returns EOF (line 78) only with the end-of-file indicator set, and
\* the GetString that follows reads once and returns (it never reaches its
\* comment loop or its letters, so it returns NULL): a number that was not
\* parsed reaches NewItem only together with the NULL string.
AbsentNumberComesWithNull ==
    call.op = "GetIntEOF" =>
        (eof /\ pos = Len(stream) /\ tpc \in {"call_str", "gs_skip"})

\* What the read loop does on the files it is written for: when the file is
\* comment and record lines, the last line a record, the words shorter than
\* the buffer, the loop ends with the records of the file in the list, in
\* order, and nothing absent is passed on.
DriverReadsRecordFiles ==
    (/\ WellFormed(lines) /\ lines # <<>> /\ lines[Len(lines)].kind = "record"
     /\ \A k \in 1..Len(lines) : Len(lines[k].word) < BUFSIZE) =>
        /\ fault = "none"
        /\ tpc = "new_item" => call.op = "GetString"
        /\ tpc = "read_done" =>
            LET recs == RecordsOf(lines)
            IN  /\ Len(theList_p) = Len(recs)
                /\ \A k \in 1..Len(recs) :
                    /\ heap[heap[theList_p[k]].ptr].number = recs[k].number
                    /\ StringOf(heap, heap[theList_p[k]].ptr) = recs[k].word

\* The buffers GetString has returned: the blocks its strdup allocated.
GetStringBuffers == {strs[k] : k \in 1..Len(strs)} \ {NULL}

\* C21: in the driver, once NewItem has copied a string GetString returned,
\* the caller frees that string: whenever the driver is back at the test of
\* its read loop, and when the loop is over, no buffer allocated by GetString
\* is still allocated.  (The driver never frees `string`, so this is
\* violated after the first record.)
C21_DriverFreesStrings ==
    (caller = "driver" /\ tpc \in {"loop_test", "read_done"}) =>
        \A p \in GetStringBuffers : heap[p].st = "freed"

\* What the driver does: every buffer GetString returned stays allocated,
\* and no record of the list points to it (NewItem made its own copy).
DriverKeepsStringsAllocated ==
    caller = "driver" =>
        \A p \in GetStringBuffers :
            /\ heap[p].st = "live" /\ heap[p].kind = "str"
            /\ \A a \in Addr : heap[a].ptr # p

\* The position of the first character of the line that holds stream[p].
LineStart(p) ==
    CHOOSE k \in 1..p :
        /\ k = 1 \/ stream[k - 1] = 10
        /\ \A j \in k..(p - 1) : stream[j] # 10

\* The line ".#3 B": a '#' that another character precedes on its line, a
\* number and a word after it.
HashInsideLine == RawLine(<<46, 35, 51, 32, 66>>, TRUE)

\* C22: a '#' starts a comment only as the first character of a line: GetInt
\* and GetString are in their comment loop only on a line that begins with
\* '#', and a '#' that other characters precede on its line is skipped as an
\* ordinary character, the token that follows it on the line being returned:
\* on the line ".#3 B" a first GetInt returns 3 and a first GetString "B".
\* (The skip loops enter the comment loop on every '#' they read, so this is
\* violated.)
C22_HashOnlyAtLineStart ==
    /\ tpc \in {"gi_comment", "gs_comment"} =>
        (pos >= 1 /\ stream[LineStart(pos)] = 35)
    /\ (lines # <<>> /\ lines[1] = HashInsideLine) =>
        /\ (Len(ints) = 1 /\ strs = <<>>) => ints[1] = 3
        /\ (Len(strs) = 1 /\ ints = <<>>) => Returned(strs[1]) = <<66>>

\* What the code does: a '#' the skip loop reads discards the rest of its
\* line wherever it stands, so that on the one-line file ".#3 B" GetInt only
\* returns EOF and GetString only NULL.
HashDiscardsRestOfLine ==
    /\ tpc \in {"gi_comment", "gs_comment"} =>
        (pos >= 1 /\ \E q \in LineStart(pos)..pos : stream[q] = 35)
    /\ lines = <<HashInsideLine>> =>
        /\ \A k \in 1..Len(ints) : ints[k] = EOF
        /\ \A k \in 1..Len(strs) : strs[k] = NULL

\* C23: the value GetInt returns at the end of the input differs from every
\* value it returns for a number it parsed, the token "-1" included: a return
\* after a conversion is never EOF.  (EOF is -1 and i*sign is -1 for the
\* token "-1", so this is violated.)
C23_EndOfInputDistinct ==
    GetIntReturned => call.ret # EOF

\* What GetInt does: the two returns give the same value exactly when the
\* digits converted have the value 1 and a '-' was read before them; the
\* return at the end of the input is always EOF.
ParsedEqualsEOFOnlyForMinusOne ==
    /\ GetIntReturned =>
        (call.ret = EOF <=>
            (sign = 0 - 1 /\ RunValue(RunStart(LastDigit), LastDigit) = 1))
    /\ call.op = "GetIntEOF" => call.ret = EOF

\* The positions of the list whose record compares EQUAL to the value
\* searched by the last call, under its key.
Matches ==
    {k \in 1..Len(theList_p) :
        CompareItemsWithKey(heap, heap[theList_p[k]].ptr, ValueOf(call), call.key)
            = EQUAL}

\* FindInList has returned the matching element closest to the head.
ReturnedFirstMatch ==
    Matches # {} =>
        \E k \in Matches : call.ret = theList_p[k] /\ \A j \in Matches : k <= j

\* C24: when several elements compare EQUAL to the value searched under the
\* key, FindInList returns the one closest to the head, and a call of
\* FindInList leaves the list, its order and every block of the heap (so
\* every record and its string) unchanged.
C24_FindInListFirstMatch ==
    [][call'.op = "FindInList" =>
        /\ ReturnedFirstMatch'
        /\ heap' = heap /\ theList_p' = theList_p /\ item_p' = item_p]_vars

\* Two elements match and the first was returned.
C24_Witness ==
    /\ call.op = "FindInList" /\ call.key = SINGLESTR
    /\ Len(theList_p) = 2 /\ Matches = {1, 2}
    /\ call.ret = theList_p[1]
    /\ heap[heap[theList_p[1]].ptr].number # heap[heap[theList_p[2]].ptr].number

====
